---- MODULE Spec2Model ----
(***************************************************************************)
(* Model of the follow graph of the profiles app: the Profile and Follow   *)
(* tables (src/api/profiles/models.py), the FollowViewSet and the          *)
(* ProfileViewSet with its helper (src/api/profiles/views.py) and the      *)
(* CreateFollowSerializer (src/api/profiles/serializers.py).               *)
(*                                                                         *)
(* Every request handler is one atomic action.  What it answers is an      *)
(* operator of the state it runs in and of its inputs (<Handler>Response); *)
(* the action changes the database exactly when that response is a         *)
(* success.  The read handlers change nothing.                             *)
(***************************************************************************)
EXTENDS Integers, Sequences, FiniteSets, TLC

\* ---------------------------------------------------------------- bounds
MaxProfileId == 3    \* the Profile id sequence stops here
MaxFollowId == 2     \* the Follow id sequence stops here

\* the read-only specification draws its database from these
NumQProfiles == 4    \* profiles 1..NumQProfiles, owned by accounts 1..NumQProfiles
MaxQEdges == 5       \* at most this many Follow rows

\* the session specification follows one client for this many requests
MaxSession == 3

\* the profile specification has this many accounts
ProfileAccounts == 1

\* the age specification: birth dates lie in the years BirthYear ..
\* BirthYear + YearSpan, today in the years in which those turn 12 to 13
\* + YearSpan, and both in the months AgeMonths (the turn of the year and
\* the leap day are among them)
BirthYear == 2008
YearSpan == 1
AgeMonths == {1, 2, 3, 12}
MinimumAge == 13     \* validate_age: age < 13

\* the race specification starts from these
RaceProfiles == 2    \* profiles 1..RaceProfiles, owned by accounts 1..RaceProfiles
MaxRaceEdges == 1    \* at most this many Follow rows before the two requests

Users == 1..MaxProfileId   \* the accounts: as many as there are profile ids
Anonymous == 0       \* request.user.is_anonymous
None == 0            \* Python None where a profile (id) is expected
NoCount == -1        \* the count attribute was never set on the instance

VARIABLES users,          \* existing accounts
          profiles,       \* Profile rows: [id, user]
          follows,        \* Follow rows: [id, follower, following, created_at]
          nextProfileId,  \* next value of the Profile id sequence
          nextFollowId,   \* next value of the Follow id sequence
          now,            \* timezone.now(), in ticks; every insert of a
                          \* Follow row finds the clock one tick further
          requests        \* the requests the specification follows one by
                          \* one: those in flight (SpecRace) or those a
                          \* client has sent so far (SpecSession); empty in
                          \* Spec and SpecQuery

vars == <<users, profiles, follows, nextProfileId, nextFollowId, now>>

\* ------------------------------------------------------------ ORM helpers
ProfileIds == {p.id : p \in profiles}

\* Follow.objects.filter(follower=a, following_id=b)
FollowRows(a, b) == {f \in follows : f.follower = a /\ f.following = b}

FollowExists(a, b) == FollowRows(a, b) # {}

RECURSIVE SortedSeq_Descending(_)
\* A faulty variant of the ordering: order_by("-id").
SortedSeq_Descending(S) ==
    IF S = {} THEN <<>>
    ELSE LET m == CHOOSE x \in S : \A y \in S : x >= y
         IN <<m>> \o SortedSeq_Descending(S \ {m})

RECURSIVE SortedSeq(_)
\* order_by("id") over a set of ids
SortedSeq(S) ==
    IF S = {} THEN <<>>
    ELSE LET m == CHOOSE x \in S : \A y \in S : x <= y
         IN <<m>> \o SortedSeq(S \ {m})

EmptyBody == <<>>

\* what a request answers: the HTTP status, the error detail, the
\* serialized profiles
Response(status, detail, body) ==
    [status |-> status, detail |-> detail, body |-> body]

NotAuthenticated ==
    Response(401, "Authentication credentials were not provided.", EmptyBody)

NotFound == Response(404, "Not found.", EmptyBody)

\* an exception no handler catches
ServerError(exception) == Response(500, exception, EmptyBody)

\* ------------------------------------------------ database constraints
\* A faulty variant of the table constraints: the UniqueConstraint is dropped.
ConstraintsOk_NoUnique(a, b) ==
    /\ a \in ProfileIds
    /\ b \in ProfileIds
    /\ a # b

\* What the database demands of a new Follow row (follower=a, following=b):
\* both foreign keys resolve, UniqueConstraint unique_follow and
\* CheckConstraint no_self_follow.
ConstraintsOk(a, b) ==
    /\ a \in ProfileIds
    /\ b \in ProfileIds
    /\ ~FollowExists(a, b)
    /\ a # b

\* A faulty variant of the insert: the row takes the lowest id no current
\* row has, so the id of a deleted row comes back.
NewFollow_ReusedId(a, b) ==
    [id |-> CHOOSE i \in 1..(nextFollowId) :
                /\ \A f \in follows : f.id # i
                /\ \A j \in 1..(i - 1) : \E f \in follows : f.id = j,
     follower |-> a, following |-> b, created_at |-> now]

\* A faulty variant of the insert: the two foreign keys are swapped.
NewFollow_Swapped(a, b) ==
    [id |-> nextFollowId, follower |-> b, following |-> a, created_at |-> now]

\* The row Follow.objects.create(follower=a, following_id=b) inserts;
\* created_at is auto_now_add.
NewFollow(a, b) ==
    [id |-> nextFollowId, follower |-> a, following |-> b, created_at |-> now]

\* A faulty variant of the cascade: the foreign keys of Follow do nothing
\* on delete.
CascadeProfiles_DoNothing(gone) == follows

\* A faulty variant of the cascade: only the follower key cascades.
CascadeProfiles_FollowerOnly(gone) ==
    {f \in follows : f.follower \notin gone}

\* on_delete=CASCADE of both foreign keys of Follow
CascadeProfiles(gone) ==
    {f \in follows : f.follower \notin gone /\ f.following \notin gone}

\* ------------------------------------------------------ current profile
\* ProfileViewSetHelper.get_current_profile:
\* Profile.objects.filter(user=user).first(), None for an anonymous user
get_current_profile(u) ==
    IF u = Anonymous THEN None
    ELSE IF \E p \in profiles : p.user = u
         THEN (CHOOSE p \in profiles : p.user = u).id
         ELSE None

HasProfile(u) == \E p \in profiles : p.user = u

\* FollowViewSet.get_current_profile: Profile.objects.get(user=...), which
\* raises Profile.DoesNotExist when the account has no profile; the caller
\* tests HasProfile first and answers 500 when it fails.
Follow_get_current_profile(u) == (CHOOSE p \in profiles : p.user = u).id

\* ---------------------------------------------------- derived follow data
\* A serialized profile.  is_following / follows_you are "True", "False",
\* "None" (the attribute is None, serialized as null) or "absent" (the
\* attribute was never set; a required=False field is then left out).
\* The counts are a number, or NoCount when never set.
Bare(id) ==
    [id |-> id, is_following |-> "absent", follows_you |-> "absent",
     following_count |-> NoCount, followers_count |-> NoCount]

BoolVal(b) == IF b THEN "True" ELSE "False"

\* profile.follows: the ManyToManyField through Follow, source field
\* follower, target field following
m2m_follows(p) == {f \in follows : f.follower = p}

\* profile.followed_by: the reverse accessor of follows
m2m_followed_by(p) == {f \in follows : f.following = p}

\* A faulty variant of add_follow_fields: follows_you is read from the
\* same accessor as is_following.
add_follow_fields_SameAccessor(instance, current_profile) ==
    IF current_profile # None
    THEN [instance EXCEPT
            !.is_following =
                BoolVal(\E f \in m2m_follows(current_profile) :
                            f.following = instance.id),
            !.follows_you =
                BoolVal(\E f \in m2m_follows(current_profile) :
                            f.following = instance.id)]
    ELSE instance

\* add_follow_fields
add_follow_fields(instance, current_profile) ==
    IF current_profile # None
    THEN [instance EXCEPT
            !.is_following =
                BoolVal(\E f \in m2m_follows(current_profile) :
                            f.following = instance.id),
            !.follows_you =
                BoolVal(\E f \in m2m_followed_by(current_profile) :
                            f.follower = instance.id)]
    ELSE instance

\* A faulty variant of add_follow_counts: the two counts are taken from
\* the wrong accessors.
add_follow_counts_Swapped(instance) ==
    [instance EXCEPT
        !.following_count = Cardinality(m2m_followed_by(instance.id)),
        !.followers_count = Cardinality(m2m_follows(instance.id))]

\* add_follow_counts: .count() counts the rows of the through table
add_follow_counts(instance) ==
    [instance EXCEPT
        !.following_count = Cardinality(m2m_follows(instance.id)),
        !.followers_count = Cardinality(m2m_followed_by(instance.id))]

\* A faulty variant of get_retrieve_object: the early return for the owner
\* is left out.
get_retrieve_object_NoOwnerCase(u, pk) ==
    LET instance == Bare(pk)
        current_profile == get_current_profile(u)
    IN add_follow_counts(add_follow_fields(instance, current_profile))

\* get_retrieve_object, for an instance that exists
get_retrieve_object(u, pk) ==
    LET instance == Bare(pk)
        current_profile == get_current_profile(u)
    IN IF current_profile = pk
       THEN instance
       ELSE add_follow_counts(add_follow_fields(instance, current_profile))

\* A faulty variant of the annotation: the When(pk=current_profile.pk) case is
\* left out.
get_profiles_with_follow_info_NoSelfCase(current_profile, pk) ==
    [Bare(pk) EXCEPT
        !.is_following =
            BoolVal(\E f \in follows :
                        f.following = pk /\ f.follower = current_profile),
        !.follows_you =
            BoolVal(\E f \in follows :
                        f.follower = pk /\ f.following = current_profile)]

\* get_profiles_with_follow_info: the annotation of one row of
\* Profile.objects, for a current profile that is not None
get_profiles_with_follow_info(current_profile, pk) ==
    [Bare(pk) EXCEPT
        !.is_following =
            IF pk = current_profile THEN "None"
            ELSE BoolVal(\E f \in follows :
                            f.following = pk /\ f.follower = current_profile),
        !.follows_you =
            IF pk = current_profile THEN "None"
            ELSE BoolVal(\E f \in follows :
                            f.follower = pk /\ f.following = current_profile)]

\* get_profiles_in_queryset: the annotated profiles with id__in=queryset,
\* order_by("id")
get_profiles_in_queryset(current_profile, queryset) ==
    LET ids == SortedSeq({i \in ProfileIds : i \in queryset})
    IN [k \in 1..Len(ids) |->
            get_profiles_with_follow_info(current_profile, ids[k])]

\* Follow.objects.filter(following=pk).values_list("follower", flat=True)
followers_qs(pk) == {f.follower : f \in {g \in follows : g.following = pk}}

\* Follow.objects.filter(follower=pk).values_list("following", flat=True);
\* filter(follower=None) matches no row
following_qs(pk) == {f.following : f \in {g \in follows : g.follower = pk}}

\* A faulty variant of the intersection: followers.union(...).
followers_i_know_qs_Union(pk, current_profile) ==
    {f.follower : f \in {g \in follows : g.following = pk}}
        \cup {f.following : f \in {g \in follows : g.follower = current_profile}}

\* followers.intersection(current_profile_following)
followers_i_know_qs(pk, current_profile) ==
    followers_qs(pk) \cap following_qs(current_profile)

\* -------------------------------------------------------- request inputs
\* who sends a request: an existing account, or nobody
Requesters == users \cup {Anonymous}

\* ids a payload or a URL can name
IdInputs == 1..MaxProfileId

\* ------------------------------------------------------- follow endpoints
\* A faulty variant of validate_following_id: the self-follow test is left out.
validate_following_id_NoSelfTest(current_profile, value) ==
    IF value \notin ProfileIds THEN "Not found."
    ELSE IF FollowExists(current_profile, value)
         THEN "You are already following this profile."
         ELSE "ok"

\* A faulty variant of validate_following_id: the duplicate test is left out.
validate_following_id_NoDuplicateTest(current_profile, value) ==
    IF value \notin ProfileIds THEN "Not found."
    ELSE IF current_profile = value THEN "You cannot follow yourself."
         ELSE "ok"

\* A faulty variant of validate_following_id: the target is not looked up.
validate_following_id_NoLookup(current_profile, value) ==
    IF FollowExists(current_profile, value)
    THEN "You are already following this profile."
    ELSE IF current_profile = value THEN "You cannot follow yourself."
         ELSE "ok"

\* CreateFollowSerializer.validate_following_id: the target must exist
\* (get_object_or_404), then the duplicate test, then the self-follow test
validate_following_id(current_profile, value) ==
    IF value \notin ProfileIds THEN "Not found."
    ELSE IF FollowExists(current_profile, value)
         THEN "You are already following this profile."
         ELSE IF current_profile = value THEN "You cannot follow yourself."
              ELSE "ok"

\* The follower_id of a follow payload.  A payload of the model always
\* carries one, and it names the profile to follow, so that in every
\* follow that is accepted it names a profile other than the actor's own.
payload_follower_id(value) == value

\* A faulty variant of save: a follower_id in the payload is written to the
\* row.
save_follower_FromPayload(current_profile, follower_id) ==
    IF follower_id # None THEN follower_id ELSE current_profile

\* The follower of the row serializer.save(follower=current_profile)
\* writes, for a payload that carries follower_id (None: it carries none).
\* follower_id is listed in Meta.fields without being a model field name,
\* so the serializer builds it read-only and the payload's value never
\* reaches validated_data; the keyword argument of save() is what is
\* written.
save_follower(current_profile, follower_id) == current_profile

\* What POST /follows/ {"following_id": value} answers; isint is whether
\* the payload value passes IntegerField.  get_serializer_context resolves
\* the current profile before the payload is validated, and perform_create
\* runs into the table constraints.
FollowCreateResponse(u, isint, value) ==
    IF u = Anonymous THEN NotAuthenticated
    ELSE IF ~HasProfile(u) THEN ServerError("Profile.DoesNotExist")
    ELSE IF ~isint THEN Response(400, "A valid integer is required.", EmptyBody)
    ELSE LET current_profile == Follow_get_current_profile(u)
             v == validate_following_id(current_profile, value)
         IN IF v = "Not found." THEN NotFound
            ELSE IF v # "ok" THEN Response(400, v, EmptyBody)
            ELSE IF ~ConstraintsOk(current_profile, value)
                 THEN ServerError("IntegrityError")
                 ELSE Response(201, "created", EmptyBody)

\* A faulty variant of create: a follow that is refused as a duplicate
\* still writes, replacing the row of the pair by a new one.
FollowCreate_Upsert(u, isint, value) ==
    /\ u \in Requesters
    /\ UNCHANGED <<users, profiles, nextProfileId>>
    /\ IF FollowCreateResponse(u, isint, value).status = 201
       THEN /\ nextFollowId <= MaxFollowId
            /\ follows' = follows \cup
                            {NewFollow(Follow_get_current_profile(u), value)}
            /\ nextFollowId' = nextFollowId + 1
            /\ now' = now + 1
       ELSE IF /\ isint
               /\ FollowCreateResponse(u, isint, value).status = 400
               /\ FollowExists(Follow_get_current_profile(u), value)
            THEN /\ nextFollowId <= MaxFollowId
                 /\ follows' =
                        (follows \ FollowRows(Follow_get_current_profile(u), value))
                        \cup {NewFollow(Follow_get_current_profile(u), value)}
                 /\ nextFollowId' = nextFollowId + 1
                 /\ now' = now + 1
            ELSE UNCHANGED <<follows, nextFollowId, now>>

\* POST /follows/: perform_create saves the row with
\* follower=current_profile when the serializer is valid
FollowCreate(u, isint, value) ==
    /\ u \in Requesters
    /\ UNCHANGED <<users, profiles, nextProfileId>>
    /\ IF FollowCreateResponse(u, isint, value).status = 201
       THEN /\ nextFollowId <= MaxFollowId
            /\ follows' = follows \cup
                    {NewFollow(save_follower(Follow_get_current_profile(u),
                                             payload_follower_id(value)),
                               value)}
            /\ nextFollowId' = nextFollowId + 1
            /\ now' = now + 1
       ELSE UNCHANGED <<follows, nextFollowId, now>>

\* A faulty variant of get_object: the follower is not part of the lookup.
Follow_get_object_AnyFollower(current_profile, following_id) ==
    {f \in follows : f.following = following_id}

\* A faulty variant of get_object: pk is taken for the id of the Follow row.
Follow_get_object_ByRowId(current_profile, following_id) ==
    {f \in follows : f.follower = current_profile /\ f.id = following_id}

\* FollowViewSet.get_object: get_object_or_404(Follow,
\* follower=current_profile, following_id=pk); the rows the lookup matches
Follow_get_object(current_profile, following_id) ==
    FollowRows(current_profile, following_id)

\* A faulty variant of the destroy answer: a pk that only other profiles
\* follow is answered 403 instead of 404.
FollowDestroyResponse_Forbidden(u, isint, pk) ==
    IF u = Anonymous THEN NotAuthenticated
    ELSE IF ~HasProfile(u) THEN ServerError("Profile.DoesNotExist")
    ELSE IF ~isint THEN ServerError("ValueError")
    ELSE LET found == Follow_get_object(Follow_get_current_profile(u), pk)
         IN IF found = {}
            THEN IF \E f \in follows : f.following = pk
                 THEN Response(403, "Forbidden.", EmptyBody)
                 ELSE NotFound
            ELSE IF Cardinality(found) > 1
                 THEN ServerError("MultipleObjectsReturned")
                 ELSE Response(204, "deleted", EmptyBody)

\* What DELETE /follows/<pk>/ answers; isint is whether pk reads as a
\* number (the router accepts any pk, and a pk that is no number makes the
\* lookup raise ValueError)
FollowDestroyResponse(u, isint, pk) ==
    IF u = Anonymous THEN NotAuthenticated
    ELSE IF ~HasProfile(u) THEN ServerError("Profile.DoesNotExist")
    ELSE IF ~isint THEN ServerError("ValueError")
    ELSE LET found == Follow_get_object(Follow_get_current_profile(u), pk)
         IN IF found = {} THEN NotFound
            ELSE IF Cardinality(found) > 1
                 THEN ServerError("MultipleObjectsReturned")
                 ELSE Response(204, "deleted", EmptyBody)

\* DELETE /follows/<pk>/: perform_destroy deletes the row get_object found
FollowDestroy(u, isint, pk) ==
    /\ u \in Requesters
    /\ UNCHANGED <<users, profiles, nextProfileId, nextFollowId, now>>
    /\ IF FollowDestroyResponse(u, isint, pk).status = 204
       THEN follows' = follows \
                        Follow_get_object(Follow_get_current_profile(u), pk)
       ELSE UNCHANGED follows

\* A faulty variant of the viewset: UpdateModelMixin is mixed in, so PUT
\* and PATCH on the detail route have a handler.
FollowActions_WithUpdate ==
    {<<"POST", "list">>, <<"DELETE", "detail">>,
     <<"PUT", "detail">>, <<"PATCH", "detail">>}

\* The handlers the router binds for FollowViewSet: CreateModelMixin gives
\* create (POST on the list route) and DestroyModelMixin gives destroy
\* (DELETE on the detail route); the viewset has no list, retrieve, update
\* or partial_update.
FollowActions == {<<"POST", "list">>, <<"DELETE", "detail">>}

\* the read and update requests a client can send to the two routes
FollowUnboundRequests ==
    {<<"GET", "list">>, <<"GET", "detail">>,
     <<"PUT", "detail">>, <<"PATCH", "detail">>}

MethodNotAllowed == Response(405, "Method not allowed.", EmptyBody)

\* What a request with no handler is answered: APIView.dispatch runs
\* initial(), and with it the permission check, before it looks for the
\* handler, and the current profile is never asked for.
FollowDispatchResponse(u, method, route) ==
    IF u = Anonymous THEN NotAuthenticated
    ELSE IF <<method, route>> \notin FollowActions THEN MethodNotAllowed
    ELSE Response(200, "handled", EmptyBody)

\* GET /follows/, GET, PUT or PATCH /follows/<pk>/: nothing is read or
\* written
FollowNotAllowed(u, method, route) ==
    /\ u \in Requesters
    /\ FollowDispatchResponse(u, method, route).status \in {401, 405}
    /\ UNCHANGED vars

\* What Follow.objects.create(follower=a, following=b) does with no
\* serializer in front of it: the table constraints decide
FollowInsertResponse(a, b) ==
    IF ConstraintsOk(a, b) THEN "created" ELSE "IntegrityError"

\* Follow.objects.create(follower=a, following=b)
FollowInsert(a, b) ==
    /\ UNCHANGED <<users, profiles, nextProfileId>>
    /\ IF FollowInsertResponse(a, b) = "created"
       THEN /\ nextFollowId <= MaxFollowId
            /\ follows' = follows \cup {NewFollow(a, b)}
            /\ nextFollowId' = nextFollowId + 1
            /\ now' = now + 1
       ELSE UNCHANGED <<follows, nextFollowId, now>>

\* ------------------------------------------------------ profile endpoints
NewProfile(u) == [id |-> nextProfileId, user |-> u]

\* A faulty variant of get_or_create: the lookup is left out and a row is
\* always inserted.
get_or_create_Always(u) == profiles \cup {NewProfile(u)}

\* Profile.objects.get_or_create(user=u): the profile table after it
get_or_create(u) ==
    IF HasProfile(u) THEN profiles ELSE profiles \cup {NewProfile(u)}

\* the id sequence after get_or_create
IdAfterGetOrCreate(u) ==
    IF HasProfile(u) THEN nextProfileId ELSE nextProfileId + 1

\* get_or_create inserts only while the id sequence has values left
CanGetOrCreate(u) == HasProfile(u) \/ nextProfileId <= MaxProfileId

\* get_me_object for GET and PATCH, and upload_image: the database after
\* Profile.objects.get_or_create(user=request.user)
GetOrCreateStep(u) ==
    /\ CanGetOrCreate(u)
    /\ profiles' = get_or_create(u)
    /\ nextProfileId' = IdAfterGetOrCreate(u)
    /\ UNCHANGED <<users, follows, nextFollowId, now>>

\* What GET /profiles/me/ answers: UserProfileSerializer on the profile
\* get_me_object returns, which carries no follow data
MeGetResponse(u) ==
    IF u = Anonymous THEN NotAuthenticated
    ELSE Response(200, "ok",
            <<Bare(IF HasProfile(u) THEN get_current_profile(u)
                                    ELSE nextProfileId)>>)

\* GET /profiles/me/
MeGet(u) ==
    /\ u \in Requesters
    /\ IF u = Anonymous THEN UNCHANGED vars ELSE GetOrCreateStep(u)

\* What PATCH /profiles/me/ answers; valid is whether ProfileSerializer
\* accepts the payload
MePatchResponse(u, valid) ==
    IF u = Anonymous THEN NotAuthenticated
    ELSE IF valid THEN Response(200, "ok", EmptyBody)
    ELSE Response(400, "invalid", EmptyBody)

\* PATCH /profiles/me/: get_me_object runs before the payload is validated
MePatch(u, valid) ==
    /\ u \in Requesters
    /\ IF u = Anonymous THEN UNCHANGED vars ELSE GetOrCreateStep(u)

\* What DELETE /profiles/me/ answers: get_object_or_404(Profile, user=...)
MeDeleteResponse(u) ==
    IF u = Anonymous THEN NotAuthenticated
    ELSE IF ~HasProfile(u) THEN NotFound
    ELSE Response(204, "deleted", EmptyBody)

\* DELETE /profiles/me/: current_profile.delete() cascades to the Follow
\* rows of the profile
MeDelete(u) ==
    /\ u \in Requesters
    /\ IF MeDeleteResponse(u).status = 204
       THEN LET gone == {p \in profiles : p.user = u}
            IN /\ profiles' = profiles \ gone
               /\ follows' = CascadeProfiles({p.id : p \in gone})
               /\ UNCHANGED <<users, nextProfileId, nextFollowId, now>>
       ELSE UNCHANGED vars

\* What POST /profiles/upload-image/ answers; valid is whether
\* ProfileImageSerializer accepts the file
upload_image_Response(u, valid) ==
    IF u = Anonymous THEN NotAuthenticated
    ELSE IF valid THEN Response(200, "ok", EmptyBody)
    ELSE Response(400, "invalid", EmptyBody)

\* POST /profiles/upload-image/: get_or_create, then the image is validated
upload_image(u, valid) ==
    /\ u \in Requesters
    /\ IF u = Anonymous THEN UNCHANGED vars ELSE GetOrCreateStep(u)

\* What POST /profiles/ answers: the fields are validated (valid), then
\* ProfileSerializer.validate refuses a second profile
ProfileCreateResponse(u, valid) ==
    IF u = Anonymous THEN NotAuthenticated
    ELSE IF ~valid THEN Response(400, "invalid", EmptyBody)
    ELSE IF HasProfile(u)
         THEN Response(400, "You already have a profile.", EmptyBody)
         ELSE Response(201, "created", EmptyBody)

\* POST /profiles/: perform_create saves with user=request.user
ProfileCreate(u, valid) ==
    /\ u \in Requesters
    /\ IF ProfileCreateResponse(u, valid).status = 201
       THEN /\ nextProfileId <= MaxProfileId
            /\ profiles' = profiles \cup {NewProfile(u)}
            /\ nextProfileId' = nextProfileId + 1
            /\ UNCHANGED <<users, follows, nextFollowId, now>>
       ELSE UNCHANGED vars

\* An account is deleted: Profile.user is on_delete=CASCADE, and so are the
\* foreign keys of Follow
UserDelete(u) ==
    /\ u \in users
    /\ LET gone == {p \in profiles : p.user = u}
       IN /\ users' = users \ {u}
          /\ profiles' = profiles \ gone
          /\ follows' = CascadeProfiles({p.id : p \in gone})
    /\ UNCHANGED <<nextProfileId, nextFollowId, now>>

\* --------------------------------------------------------- read endpoints
\* What GET /profiles/<pk>/ (AllowAny) answers: get_retrieve_object, then
\* UserProfileSerializer
RetrieveResponse(u, pk) ==
    IF pk \notin ProfileIds THEN NotFound
    ELSE Response(200, "ok", <<get_retrieve_object(u, pk)>>)

\* What the three list endpoints on /profiles/<pk>/ answer:
\* IsAuthenticated, then self.get_object() (404), then
\* get_profiles_in_queryset, whose annotation reads current_profile.pk and
\* so raises AttributeError for an account without a profile
ListResponse(u, pk, queryset) ==
    IF u = Anonymous THEN NotAuthenticated
    ELSE IF pk \notin ProfileIds THEN NotFound
    ELSE IF get_current_profile(u) = None THEN ServerError("AttributeError")
    ELSE Response(200, "ok",
                  get_profiles_in_queryset(get_current_profile(u), queryset))

\* What GET /profiles/<pk>/followers/ answers
followersResponse(u, pk) == ListResponse(u, pk, followers_qs(pk))

\* What GET /profiles/<pk>/following/ answers
followingResponse(u, pk) == ListResponse(u, pk, following_qs(pk))

\* What GET /profiles/<pk>/followers-i-know/ answers
followers_i_knowResponse(u, pk) ==
    ListResponse(u, pk, followers_i_know_qs(pk, get_current_profile(u)))

\* GET /profiles/<pk>/
Retrieve(u, pk) == u \in Requesters /\ UNCHANGED vars

\* GET /profiles/<pk>/followers/
followers(u, pk) == u \in Requesters /\ UNCHANGED vars

\* GET /profiles/<pk>/following/
following(u, pk) == u \in Requesters /\ UNCHANGED vars

\* GET /profiles/<pk>/followers-i-know/
followers_i_know(u, pk) == u \in Requesters /\ UNCHANGED vars

\* ---------------------------------------------------------- specification
\* the accounts exist, both tables are empty
Init ==
    /\ users = Users
    /\ profiles = {}
    /\ follows = {}
    /\ nextProfileId = 1
    /\ nextFollowId = 1
    /\ now = 0
    /\ requests = <<>>

\* The requests that change the database, and those the follow routes
\* have no handler for.  The read endpoints of the profile routes change
\* nothing; SpecQuery below runs them.
Next ==
    \/ \E u \in Users \cup {Anonymous}, r \in FollowUnboundRequests :
            FollowNotAllowed(u, r[1], r[2])
            /\ UNCHANGED requests
    \/ \E u \in Users \cup {Anonymous}, v \in IdInputs : FollowCreate(u, TRUE, v)
            /\ UNCHANGED requests
    \/ \E u \in Users \cup {Anonymous} : FollowCreate(u, FALSE, 0)
            /\ UNCHANGED requests
    \/ \E u \in Users \cup {Anonymous}, pk \in IdInputs : FollowDestroy(u, TRUE, pk)
            /\ UNCHANGED requests
    \/ \E u \in Users \cup {Anonymous} : FollowDestroy(u, FALSE, 0)
            /\ UNCHANGED requests
    \/ \E a \in IdInputs, b \in IdInputs : FollowInsert(a, b)
            /\ UNCHANGED requests
    \/ \E u \in Users \cup {Anonymous} : MeGet(u)
            /\ UNCHANGED requests
    \/ \E u \in Users \cup {Anonymous}, valid \in BOOLEAN : MePatch(u, valid)
            /\ UNCHANGED requests
    \/ \E u \in Users \cup {Anonymous} : MeDelete(u)
            /\ UNCHANGED requests
    \/ \E u \in Users \cup {Anonymous}, valid \in BOOLEAN : upload_image(u, valid)
            /\ UNCHANGED requests
    \/ \E u \in Users \cup {Anonymous}, valid \in BOOLEAN : ProfileCreate(u, valid)
            /\ UNCHANGED requests
    \/ \E u \in Users : UserDelete(u)
            /\ UNCHANGED requests

Spec == Init /\ [][Next]_vars

\* ------------------------------------------------ read-only specification
\* The read endpoints, over every database of NumQProfiles profiles and at
\* most MaxQEdges Follow rows that satisfies the table constraints.
\* Account i owns profile i; account NumQProfiles + 1 has no profile, and
\* no profile has the id NumQProfiles + 1.
QPairs == {p \in (1..NumQProfiles) \X (1..NumQProfiles) : p[1] # p[2]}

QRank(p) == (p[1] - 1) * NumQProfiles + p[2]

\* the Follow rows of the pairs E, inserted in descending order of QRank,
\* so that the order of the rows runs against the order of the profiles
QRows(E) ==
    LET pos(p) == Cardinality({q \in E : QRank(q) >= QRank(p)})
    IN {[id |-> pos(p), follower |-> p[1], following |-> p[2],
         created_at |-> pos(p) - 1] : p \in E}

InitQuery ==
    /\ users = 1..(NumQProfiles + 1)
    /\ profiles = {[id |-> i, user |-> i] : i \in 1..NumQProfiles}
    /\ \E E \in SUBSET QPairs :
            /\ Cardinality(E) <= MaxQEdges
            /\ follows = QRows(E)
    /\ nextProfileId = NumQProfiles + 1
    /\ nextFollowId = Cardinality(follows) + 1
    /\ now = Cardinality(follows)
    /\ requests = <<>>

QUsers == 0..(NumQProfiles + 1)
QIds == 1..(NumQProfiles + 1)

NextQuery ==
    \/ \E u \in QUsers, pk \in QIds : Retrieve(u, pk)
            /\ UNCHANGED requests
    \/ \E u \in QUsers, pk \in QIds : followers(u, pk)
            /\ UNCHANGED requests
    \/ \E u \in QUsers, pk \in QIds : following(u, pk)
            /\ UNCHANGED requests
    \/ \E u \in QUsers, pk \in QIds : followers_i_know(u, pk)
            /\ UNCHANGED requests

SpecQuery == InitQuery /\ [][NextQuery]_vars

\* ------------------------------------------------- session specification
\* One client sends follow and unfollow requests one after the other; each
\* is handled whole before the next, and requests keeps, per request, what
\* was asked, what was answered and the Follow rows written or deleted.
Request(kind, user, target, response, rows) ==
    [kind |-> kind, user |-> user, target |-> target,
     response |-> response, rows |-> rows]

\* every account has a profile, nobody follows anybody
InitSession ==
    /\ users = Users
    /\ profiles = {[id |-> i, user |-> i] : i \in 1..MaxProfileId}
    /\ follows = {}
    /\ nextProfileId = MaxProfileId + 1
    /\ nextFollowId = 1
    /\ now = 0
    /\ requests = <<>>

\* the client of the session sends one more request
SessionOpen(u) ==
    /\ Len(requests) < MaxSession
    /\ IF requests = <<>> THEN TRUE ELSE requests[1].user = u

\* POST /follows/ {"following_id": value}, kept in the session
SessionFollow(u, value) ==
    /\ SessionOpen(u)
    /\ FollowCreate(u, TRUE, value)
    /\ requests' = Append(requests,
            Request("follow", u, value, FollowCreateResponse(u, TRUE, value),
                    follows' \ follows))

\* DELETE /follows/<pk>/, kept in the session
SessionUnfollow(u, pk) ==
    /\ SessionOpen(u)
    /\ FollowDestroy(u, TRUE, pk)
    /\ requests' = Append(requests,
            Request("unfollow", u, pk, FollowDestroyResponse(u, TRUE, pk),
                    follows \ follows'))

NextSession ==
    \/ \E u \in Users, value \in IdInputs : SessionFollow(u, value)
    \/ \E u \in Users, pk \in IdInputs : SessionUnfollow(u, pk)

SpecSession == InitSession /\ [][NextSession]_<<vars, requests>>

\* ---------------------------------------------------- race specification
\* Two follow or unfollow requests run at the same time.  Nothing in the
\* views or the serializer opens a transaction or takes a lock, so a
\* request is two steps that the steps of the other request may come
\* between: the lookup (validate_following_id for a follow, get_object
\* for an unfollow) and the write (perform_create, perform_destroy).
NoResponse == Response(0, "", EmptyBody)

\* A request in flight.  at is "start", then "validated" (a follow whose
\* serializer is valid) or "found" (an unfollow whose get_object returned
\* a row), then "done"; rows is the instance get_object returned, or the
\* row perform_create wrote; commit is the place of its write among the
\* writes of the run, 0 while it has written nothing.
InFlight(kind, user, target) ==
    [kind |-> kind, user |-> user, target |-> target, at |-> "start",
     response |-> NoResponse, rows |-> {}, commit |-> 0]

RaceRequests == {1, 2}

\* the writes committed so far
Commits == Cardinality({i \in RaceRequests : requests[i].commit > 0})

\* A faulty variant of perform_destroy: the delete is never sent.
perform_destroy_Noop(instance) == follows

\* DestroyModelMixin.perform_destroy: instance.delete() deletes by the
\* primary key of the row get_object returned; a row that is already gone
\* makes it delete nothing.  The Follow table after it.
perform_destroy(instance) ==
    {f \in follows : \A r \in instance : f.id # r.id}

InitRace ==
    /\ users = 1..RaceProfiles
    /\ profiles = {[id |-> i, user |-> i] : i \in 1..RaceProfiles}
    /\ \E E \in SUBSET {p \in (1..RaceProfiles) \X (1..RaceProfiles) :
                            p[1] # p[2]} :
            /\ Cardinality(E) <= MaxRaceEdges
            /\ follows = QRows(E)
    /\ nextProfileId = RaceProfiles + 1
    /\ nextFollowId = Cardinality(follows) + 1
    /\ now = Cardinality(follows)
    /\ \E k1 \in {"follow", "unfollow"}, k2 \in {"follow", "unfollow"},
          u1 \in 1..RaceProfiles, u2 \in 1..RaceProfiles,
          t1 \in 1..RaceProfiles, t2 \in 1..RaceProfiles :
            requests = <<InFlight(k1, u1, t1), InFlight(k2, u2, t2)>>

\* POST /follows/, first step: the serializer is validated against the
\* table as it is now
FollowValidate(i) ==
    LET r == requests[i]
        v == validate_following_id(Follow_get_current_profile(r.user),
                                   r.target)
    IN /\ r.kind = "follow" /\ r.at = "start"
       /\ requests' = [requests EXCEPT ![i] =
            IF v = "Not found."
            THEN [r EXCEPT !.at = "done", !.response = NotFound]
            ELSE IF v # "ok"
                 THEN [r EXCEPT !.at = "done",
                                !.response = Response(400, v, EmptyBody)]
                 ELSE [r EXCEPT !.at = "validated"]]
       /\ UNCHANGED vars

\* POST /follows/, second step: perform_create sends the insert, and the
\* table constraints decide; an IntegrityError is caught nowhere
FollowPerformCreate(i) ==
    LET r == requests[i]
        current_profile == Follow_get_current_profile(r.user)
    IN /\ r.kind = "follow" /\ r.at = "validated"
       /\ IF ConstraintsOk(current_profile, r.target)
          THEN /\ follows' = follows \cup {NewFollow(current_profile, r.target)}
               /\ nextFollowId' = nextFollowId + 1
               /\ now' = now + 1
               /\ requests' = [requests EXCEPT ![i] =
                    [r EXCEPT !.at = "done",
                              !.response = Response(201, "created", EmptyBody),
                              !.rows = {NewFollow(current_profile, r.target)},
                              !.commit = Commits + 1]]
          ELSE /\ UNCHANGED <<follows, nextFollowId, now>>
               /\ requests' = [requests EXCEPT ![i] =
                    [r EXCEPT !.at = "done",
                              !.response = ServerError("IntegrityError")]]
       /\ UNCHANGED <<users, profiles, nextProfileId>>

\* DELETE /follows/<pk>/, first step: get_object
FollowGetObject(i) ==
    LET r == requests[i]
        found == Follow_get_object(Follow_get_current_profile(r.user),
                                   r.target)
    IN /\ r.kind = "unfollow" /\ r.at = "start"
       /\ requests' = [requests EXCEPT ![i] =
            IF found = {}
            THEN [r EXCEPT !.at = "done", !.response = NotFound]
            ELSE [r EXCEPT !.at = "found", !.rows = found]]
       /\ UNCHANGED vars

\* DELETE /follows/<pk>/, second step: perform_destroy, then 204
FollowPerformDestroy(i) ==
    LET r == requests[i]
    IN /\ r.kind = "unfollow" /\ r.at = "found"
       /\ follows' = perform_destroy(r.rows)
       /\ requests' = [requests EXCEPT ![i] =
            [r EXCEPT !.at = "done",
                      !.response = Response(204, "deleted", EmptyBody),
                      !.commit = Commits + 1]]
       /\ UNCHANGED <<users, profiles, nextProfileId, nextFollowId, now>>

NextRace ==
    \/ \E i \in RaceRequests : FollowValidate(i)
    \/ \E i \in RaceRequests : FollowPerformCreate(i)
    \/ \E i \in RaceRequests : FollowGetObject(i)
    \/ \E i \in RaceRequests : FollowPerformDestroy(i)

SpecRace == InitRace /\ [][NextRace]_<<vars, requests>>

\* -------------------------------------------------- profile specification
\* PATCH and PUT on /profiles/me/ with the columns of the Profile row in
\* the state.  A row is [id, user, bio, location, birth_date, website,
\* is_verified, is_suspended, image]; the text columns hold "null", "old"
\* or "new".
Editable == {"bio", "location", "birth_date", "website"}

\* read_only_fields of ProfileSerializer, and user_id, declared read_only
ReadOnly == {"id", "user_id", "is_verified", "is_suspended", "image"}

\* the model column a serializer field writes
Column(field) == IF field = "user_id" THEN "user" ELSE field

\* The payloads of the model: any subset of the editable fields, each with
\* a new value, and every read-only field: an id and an account that are
\* numbers past the sequence and the accounts, both flags set, a new image.
Payloads ==
    {[f \in E \cup ReadOnly |->
        IF f \in Editable THEN "new"
        ELSE IF f \in {"id", "user_id"} THEN ProfileAccounts + MaxProfileId
        ELSE IF f = "image" THEN "new"
        ELSE TRUE] : E \in SUBSET Editable}

\* A faulty variant of validated_data: the read-only fields are let through.
validated_data_AllFields(payload) == payload

\* serializer.validated_data: the fields of the payload that are not
\* read-only
validated_data(payload) ==
    [f \in DOMAIN payload \ ReadOnly |-> payload[f]]

\* ModelSerializer.update(instance, validated_data): setattr for each
\* validated field, then instance.save()
update(instance, validated) ==
    [c \in DOMAIN instance |->
        IF \E f \in DOMAIN validated : Column(f) = c
        THEN validated[CHOOSE f \in DOMAIN validated : Column(f) = c]
        ELSE instance[c]]

\* The row Profile.objects.get_or_create(user=u) inserts: the defaults of
\* the model
NewProfileRow(u) ==
    [id |-> nextProfileId, user |-> u, bio |-> "null", location |-> "null",
     birth_date |-> "null", website |-> "null", is_verified |-> FALSE,
     is_suspended |-> FALSE, image |-> "null"]

\* a row as Profile.objects.create or the admin site can have left it
StoredRows(i, u) ==
    {[id |-> i, user |-> u, bio |-> "old", location |-> "old",
      birth_date |-> "old", website |-> "old", is_verified |-> v,
      is_suspended |-> z, image |-> g] :
        v \in BOOLEAN, z \in BOOLEAN, g \in {"null", "old"}}

InitProfile ==
    /\ users = 1..ProfileAccounts
    /\ \E owners \in SUBSET (1..ProfileAccounts) :
        \E rows \in [owners -> UNION {StoredRows(u, u) : u \in owners}] :
            /\ \A u \in owners : rows[u] \in StoredRows(u, u)
            /\ profiles = {rows[u] : u \in owners}
    /\ follows = {}
    /\ nextProfileId = ProfileAccounts + 1
    /\ nextFollowId = 1
    /\ now = 0
    /\ requests = <<>>

\* PATCH /profiles/me/ with a payload: get_me_object (get_or_create), then
\* is_valid, then serializer.save() on the row
MePatchProfile(u, payload, valid) ==
    /\ u \in Requesters
    /\ IF u = Anonymous THEN UNCHANGED vars
       ELSE LET current_profile ==
                    IF HasProfile(u)
                    THEN CHOOSE p \in profiles : p.user = u
                    ELSE NewProfileRow(u)
            IN /\ profiles' =
                    IF MePatchResponse(u, valid).status = 200
                    THEN (profiles \ {current_profile}) \cup
                            {update(current_profile, validated_data(payload))}
                    ELSE profiles \cup {current_profile}
               /\ nextProfileId' = IdAfterGetOrCreate(u)
               /\ UNCHANGED <<users, follows, nextFollowId, now>>

\* What PUT /profiles/me/ answers: the me action lists DELETE, GET, OPTIONS
\* and PATCH, so PUT has no handler; the permission check comes first
MePutResponse(u) ==
    IF u = Anonymous THEN NotAuthenticated ELSE MethodNotAllowed

\* PUT /profiles/me/
MePut(u) == u \in Requesters /\ UNCHANGED vars

NextProfile ==
    \/ \E u \in Users \cup {Anonymous}, payload \in Payloads, valid \in BOOLEAN :
            MePatchProfile(u, payload, valid)
            /\ UNCHANGED requests
    \/ \E u \in Users \cup {Anonymous} : MePut(u)
            /\ UNCHANGED requests

SpecProfile == InitProfile /\ [][NextProfile]_vars

\* ------------------------------------------------------ age specification
\* POST /profiles/ with a birth_date, on a given day.  Here now holds
\* timezone.now().date() as [year, month, day], and requests holds the one
\* request that was sent.
IsLeap(year) ==
    /\ year % 4 = 0
    /\ (year % 100 # 0 \/ year % 400 = 0)

DaysIn(year, month) ==
    IF month = 2 THEN (IF IsLeap(year) THEN 29 ELSE 28)
    ELSE IF month \in {4, 6, 9, 11} THEN 30
    ELSE 31

Date(year, month, day) == [year |-> year, month |-> month, day |-> day]

\* the calendar dates of the given years in the months of the model
DatesOf(years) ==
    {date \in {Date(y, m, d) : y \in years, m \in AgeMonths, d \in 1..31} :
        date.day <= DaysIn(date.year, date.month)}

BirthDates == DatesOf(BirthYear..(BirthYear + YearSpan))

Todays == DatesOf((BirthYear + MinimumAge - 1)..(BirthYear + MinimumAge + YearSpan))

\* Python's (a1, a2) < (b1, b2) on pairs of numbers
PairLess(a1, a2, b1, b2) == a1 < b1 \/ (a1 = b1 /\ a2 < b2)

\* A faulty variant of validate_age: the age is the difference of the years.
validate_age_YearsOnly(value) ==
    LET today == now
        age == today.year - value.year
    IN IF age < MinimumAge
       THEN "You must be at least 13 years old to use Nexus."
       ELSE "ok"

\* validators.validate_age: "ok", or the message of the ValidationError
validate_age(value) ==
    LET today == now
        age == today.year - value.year
                - (IF PairLess(today.month, today.day, value.month, value.day)
                   THEN 1 ELSE 0)
    IN IF age < MinimumAge
       THEN "You must be at least 13 years old to use Nexus."
       ELSE "ok"

InitAge ==
    /\ users = {1}
    /\ profiles = {}
    /\ follows = {}
    /\ nextProfileId = 1
    /\ nextFollowId = 1
    /\ now \in Todays
    /\ requests = <<>>

\* POST /profiles/ {"birth_date": value}: the field validators of the
\* model run in the serializer, and validate_age is the one of birth_date
ProfileCreateBorn(u, value) ==
    /\ requests = <<>>
    /\ ProfileCreate(u, validate_age(value) = "ok")
    /\ requests' = <<Request("create", u, value,
                        ProfileCreateResponse(u, validate_age(value) = "ok"),
                        profiles' \ profiles)>>

NextAge ==
    \E u \in Users, value \in BirthDates : ProfileCreateBorn(u, value)

SpecAge == InitAge /\ [][NextAge]_<<vars, requests>>

\* ------------------------------------------------------------ properties
\* A property of a request has two parts: what the request answers in
\* every state (Cn_Response) and what a step of it does to the database
\* (Cn_Effect).  A step that changes nothing satisfies [][...]_vars as it
\* is, so the step part is only evaluated on the steps that change vars.
\* the account that owns profile p
OwnerOf(p) == (CHOOSE q \in profiles : q.id = p).user

\* IsFollowing / FollowsYou as a viewer profile v sees them on a subject s,
\* on the retrieve path and on the list path
IsFollowingRetrieve(v, s) == get_retrieve_object(OwnerOf(v), s).is_following
FollowsYouRetrieve(v, s) == get_retrieve_object(OwnerOf(v), s).follows_you
IsFollowingList(v, s) == get_profiles_with_follow_info(v, s).is_following
FollowsYouList(v, s) == get_profiles_with_follow_info(v, s).follows_you

\* CountFollowers / CountFollowing: the counts a retrieve attaches
CountFollowers(p) == add_follow_counts(Bare(p)).followers_count
CountFollowing(p) == add_follow_counts(Bare(p)).following_count

CountsUnchanged ==
    \A p \in ProfileIds :
        /\ CountFollowers(p)' = CountFollowers(p)
        /\ CountFollowing(p)' = CountFollowing(p)

UsersWithProfile == {u \in users : HasProfile(u)}

C1_Response ==
    \A u \in UsersWithProfile, b \in ProfileIds :
        LET a == Follow_get_current_profile(u)
        IN (a # b /\ ~FollowExists(a, b)) =>
                FollowCreateResponse(u, TRUE, b).status = 201

C1_Effect ==
    \A u \in UsersWithProfile, b \in ProfileIds :
        LET a == Follow_get_current_profile(u)
        IN (a # b /\ ~FollowExists(a, b) /\ FollowCreate(u, TRUE, b)) =>
            /\ IsFollowingRetrieve(a, b)' = "True"
            /\ IsFollowingList(a, b)' = "True"
            /\ FollowsYouRetrieve(b, a)' = "True"
            /\ FollowsYouList(b, a)' = "True"
            /\ CountFollowers(b)' = CountFollowers(b) + 1
            /\ CountFollowing(a)' = CountFollowing(a) + 1

\* C1: when profile A follows a distinct existing profile B it does not yet
\* follow, the request succeeds (201); afterwards is_following is true for
\* viewer A on B and follows_you is true for viewer B on A, on both read
\* paths, the followers count of B is one more than before and the
\* following count of A is one more than before.
C1_FollowAddsEdge ==
    []C1_Response /\ [][vars' # vars => C1_Effect]_vars

\* C1 witness: the newest row is the edge of a follow, and both ends see it
C1_Witness ==
    \E f \in follows :
        /\ f.id = nextFollowId - 1
        /\ IsFollowingRetrieve(f.follower, f.following) = "True"
        /\ FollowsYouList(f.following, f.follower) = "True"
        /\ CountFollowers(f.following) >= 1

SelfFollowError == Response(400, "You cannot follow yourself.", EmptyBody)

DuplicateFollowError ==
    Response(400, "You are already following this profile.", EmptyBody)

C2_Response ==
    \A u \in UsersWithProfile :
        LET a == Follow_get_current_profile(u)
        IN /\ FollowCreateResponse(u, TRUE, a) = SelfFollowError
           /\ FollowInsertResponse(a, a) = "IntegrityError"

C2_Effect ==
    \A u \in UsersWithProfile :
        LET a == Follow_get_current_profile(u)
        IN (FollowCreate(u, TRUE, a) \/ FollowInsert(a, a)) =>
                (follows' = follows /\ CountsUnchanged)

\* C2: a profile that asks to follow itself is refused with "You cannot
\* follow yourself." (400), and a direct insert of a self-follow row is
\* refused by the database; either way no row is added and no count changes.
C2_SelfFollowRefused ==
    []C2_Response /\ [][vars' # vars => C2_Effect]_vars

\* C2 witness: a profile that already follows another is refused itself
C2_Witness ==
    \E u \in UsersWithProfile :
        /\ m2m_follows(Follow_get_current_profile(u)) # {}
        /\ FollowCreateResponse(u, TRUE, Follow_get_current_profile(u))
                = SelfFollowError

C3_Response ==
    \A u \in UsersWithProfile, b \in ProfileIds :
        LET a == Follow_get_current_profile(u)
        IN a # b =>
            FollowCreateResponse(u, TRUE, b) =
                IF FollowExists(a, b) THEN DuplicateFollowError
                ELSE Response(201, "created", EmptyBody)

C3_Effect ==
    \A u \in UsersWithProfile, b \in ProfileIds :
        LET a == Follow_get_current_profile(u)
        IN (a # b /\ FollowCreate(u, TRUE, b)) =>
            /\ Cardinality(FollowRows(a, b))' = 1
            /\ FollowCreateResponse(u, TRUE, b)' = DuplicateFollowError
            /\ FollowExists(a, b) => follows' = follows

\* C3: a follow request for a pair of distinct profiles with no edge
\* succeeds, and from then on the same request is refused with "You are
\* already following this profile." (400), adds no row, and the pair keeps
\* exactly one row.
C3_SecondFollowRefused ==
    []C3_Response /\ [][vars' # vars => C3_Effect]_vars

\* C3 witness: an edge exists and a second follow of it is refused
C3_Witness ==
    \E u \in UsersWithProfile, f \in follows :
        /\ f.follower = Follow_get_current_profile(u)
        /\ FollowCreateResponse(u, TRUE, f.following) = DuplicateFollowError

C4_Response ==
    \A u \in UsersWithProfile, t \in IdInputs \ ProfileIds :
        FollowCreateResponse(u, TRUE, t) = NotFound

C4_Effect ==
    \A u \in UsersWithProfile, t \in IdInputs \ ProfileIds :
        FollowCreate(u, TRUE, t) => follows' = follows

\* C4: a follow request whose target is the id of no profile is answered
\* 404 "Not found." and adds no row, whoever asks and whatever edges exist.
C4_MissingTargetNotFound ==
    []C4_Response /\ [][vars' # vars => C4_Effect]_vars

\* C4 witness: a profile with an edge asks to follow the id of a profile
\* that was deleted
C4_Witness ==
    \E u \in UsersWithProfile, t \in IdInputs \ ProfileIds :
        /\ t < nextProfileId
        /\ m2m_follows(Follow_get_current_profile(u)) # {}
        /\ FollowCreateResponse(u, TRUE, t) = NotFound

C5_Response ==
    \A u \in UsersWithProfile, b \in IdInputs :
        LET a == Follow_get_current_profile(u)
        IN FollowDestroyResponse(u, TRUE, b) =
                IF FollowExists(a, b) THEN Response(204, "deleted", EmptyBody)
                ELSE NotFound

C5_Effect ==
    \A u \in UsersWithProfile, b \in IdInputs :
        LET a == Follow_get_current_profile(u)
        IN FollowDestroy(u, TRUE, b) =>
            IF FollowExists(a, b)
            THEN /\ follows' = follows \ FollowRows(a, b)
                 /\ ~FollowExists(a, b)'
                 /\ IsFollowingRetrieve(a, b)' = "False"
                 /\ IsFollowingList(a, b)' = "False"
                 /\ FollowDestroyResponse(u, TRUE, b)' = NotFound
            ELSE follows' = follows

\* C5: an unfollow by A of a profile B that A follows is answered 204 and
\* removes the edge (A,B) and nothing else; afterwards is_following is
\* false for viewer A on B on both read paths, and the same unfollow again
\* is answered 404 "Not found." and changes nothing.
C5_UnfollowThenNotFound ==
    []C5_Response /\ [][vars' # vars => C5_Effect]_vars

\* C5 witness: no profile was ever deleted, a Follow row was, and the
\* unfollow of a profile the actor does not follow is answered 404
C5_Witness ==
    /\ nextProfileId = Cardinality(profiles) + 1
    /\ nextFollowId > Cardinality(follows) + 1
    /\ \E u \in UsersWithProfile, b \in ProfileIds :
            /\ b # Follow_get_current_profile(u)
            /\ FollowDestroyResponse(u, TRUE, b) = NotFound

C6_Response ==
    \A u \in UsersWithProfile, f \in follows :
        LET c == Follow_get_current_profile(u)
        IN f.follower # c =>
            \A pk \in {f.following, f.id} :
                ~FollowExists(c, pk) =>
                    FollowDestroyResponse(u, TRUE, pk) = NotFound

C6_Effect ==
    \A u \in Users, pk \in IdInputs, isint \in BOOLEAN :
        FollowDestroy(u, isint, pk) =>
            \A f \in follows :
                (HasProfile(u) => f.follower # Follow_get_current_profile(u))
                    => f \in follows'

C7_UniqueNoSelfFollow ==
    /\ \A f \in follows, g \in follows :
            (f.follower = g.follower /\ f.following = g.following) => f = g
    /\ \A f \in follows : f.follower # f.following

\* C7 witness: with two rows in the table, the database refuses a direct
\* insert of a duplicate and of a self-follow
C7_Witness ==
    /\ Cardinality(follows) = 2
    /\ \E f \in follows :
            /\ FollowInsertResponse(f.follower, f.following) = "IntegrityError"
            /\ FollowInsertResponse(f.follower, f.follower) = "IntegrityError"

\* the ids of the profiles in the body of a response, in its order
BodyIds(R) == [k \in 1..Len(R.body) |-> R.body[k].id]

\* a sequence of ids strictly ascending: ordered, and no id twice
StrictlyAscending(ids) ==
    \A j \in 1..Len(ids), k \in 1..Len(ids) : j < k => ids[j] < ids[k]

SeqRange(ids) == {ids[k] : k \in 1..Len(ids)}

\* C8: for every set of edges, every profile P and every viewer V,
\* followers-i-know of P answers 200 with exactly the profiles that follow
\* P and that V follows, each once, in ascending order of id; the answer is
\* fixed by the set of (follower, following) pairs alone, whatever the
\* order of the rows.
C8_FollowersIKnow ==
    \A u \in UsersWithProfile, pk \in ProfileIds :
        LET v == get_current_profile(u)
            R == followers_i_knowResponse(u, pk)
        IN /\ R.status = 200
           /\ SeqRange(BodyIds(R)) =
                {x \in ProfileIds : FollowExists(x, pk) /\ FollowExists(v, x)}
           /\ StrictlyAscending(BodyIds(R))

\* C8 witness: three profiles follow P, the viewer follows two of them,
\* the rows were inserted against the order of the profile ids, and the
\* answer is the profiles 1 and 2
C8_Witness ==
    \E u \in UsersWithProfile, pk \in ProfileIds :
        /\ Cardinality(followers_qs(pk)) = 3
        /\ Cardinality(following_qs(get_current_profile(u))) = 2
        /\ \E f \in follows, g \in follows :
                /\ f.following = pk /\ g.following = pk
                /\ f.follower < g.follower /\ f.id > g.id
        /\ BodyIds(followers_i_knowResponse(u, pk)) = <<1, 2>>

\* C9: for every set of edges and every profile P, followers of P answers
\* exactly the follower ids of the edges whose following is P, and
\* following of P exactly the following ids of the edges whose follower is
\* P, each in ascending order of id and without duplicates.
C9_FollowersFollowing ==
    \A u \in UsersWithProfile, pk \in ProfileIds :
        LET Rfollowers == followersResponse(u, pk)
            Rfollowing == followingResponse(u, pk)
        IN /\ Rfollowers.status = 200
           /\ SeqRange(BodyIds(Rfollowers)) =
                {x \in ProfileIds : \E f \in follows :
                                        f.follower = x /\ f.following = pk}
           /\ StrictlyAscending(BodyIds(Rfollowers))
           /\ Rfollowing.status = 200
           /\ SeqRange(BodyIds(Rfollowing)) =
                {x \in ProfileIds : \E f \in follows :
                                        f.following = x /\ f.follower = pk}
           /\ StrictlyAscending(BodyIds(Rfollowing))

\* C9 witness: a profile with three followers and another list of two,
\* the two lists different
C9_Witness ==
    \E u \in UsersWithProfile, pk \in ProfileIds :
        /\ Len(followersResponse(u, pk).body) = 3
        /\ Len(followingResponse(u, pk).body) = 2
        /\ BodyIds(followingResponse(u, pk))[1] > 1

Sentinel == {"None", "absent"}

ProperBoolean == {"True", "False"}

\* C10: a viewer that reads its own profile gets is_following and
\* follows_you as the self-view sentinel (null in a list, left out of a
\* retrieve), never true or false; for every other profile it reads, in a
\* retrieve or in a list, both are true or false.
C10_SelfViewSentinel ==
    \A u \in UsersWithProfile :
        LET v == get_current_profile(u)
            Proper(e) == IF e.id = v
                         THEN /\ e.is_following \in Sentinel
                              /\ e.follows_you \in Sentinel
                         ELSE /\ e.is_following \in ProperBoolean
                              /\ e.follows_you \in ProperBoolean
            AllProper(body) == \A k \in 1..Len(body) : Proper(body[k])
        IN \A pk \in ProfileIds :
            /\ AllProper(RetrieveResponse(u, pk).body)
            /\ Len(RetrieveResponse(u, pk).body) = 1
            /\ AllProper(followersResponse(u, pk).body)
            /\ AllProper(followingResponse(u, pk).body)
            /\ AllProper(followers_i_knowResponse(u, pk).body)

\* C10 witness: the viewer is in the list of the followers of a profile,
\* next to another follower
C10_Witness ==
    \E u \in UsersWithProfile, pk \in ProfileIds :
        LET R == followersResponse(u, pk)
        IN /\ Len(R.body) >= 2
           /\ \E k \in 1..Len(R.body) :
                /\ R.body[k].id = get_current_profile(u)
                /\ R.body[k].is_following = "None"
           /\ \E k \in 1..Len(R.body) : R.body[k].follows_you = "True"

\* C11: in every reachable state, a retrieve of profile P by anyone but its
\* owner reports as followers_count the number of current Follow rows whose
\* following is P and as following_count the number of current rows whose
\* follower is P; the owner's own retrieve reports no count at all, so no
\* read reports a number of an earlier state.
C11_CountsFresh ==
    \A u \in Requesters, pk \in ProfileIds :
        LET e == RetrieveResponse(u, pk).body[1]
        IN IF get_current_profile(u) = pk
           THEN e.followers_count = NoCount /\ e.following_count = NoCount
           ELSE /\ e.followers_count =
                        Cardinality({f \in follows : f.following = pk})
                /\ e.following_count =
                        Cardinality({f \in follows : f.follower = pk})

\* C11 witness: a Follow row was deleted, and a retrieve reports one
\* follower and no following for a profile
C11_Witness ==
    /\ nextFollowId > Cardinality(follows) + 1
    /\ \E u \in Requesters, pk \in ProfileIds :
            /\ RetrieveResponse(u, pk).body[1].followers_count = 1
            /\ RetrieveResponse(u, pk).body[1].following_count = 0

\* the profile of account u
ProfileOf(u) == (CHOOSE p \in profiles : p.user = u).id

C12_Response ==
    \A u \in UsersWithProfile :
        MeDeleteResponse(u) = Response(204, "deleted", EmptyBody)

C12_Effect ==
    \A u \in UsersWithProfile :
        (MeDelete(u) \/ UserDelete(u)) =>
            LET b == ProfileOf(u)
            IN /\ follows' =
                    {f \in follows : f.follower # b /\ f.following # b}
               /\ \A a \in ProfileIds \ {b} :
                    /\ b \notin (following_qs(a))'
                    /\ b \notin (followers_qs(a))'
                    /\ CountFollowing(a)' = CountFollowing(a)
                            - (IF FollowExists(a, b) THEN 1 ELSE 0)
                    /\ CountFollowers(a)' = CountFollowers(a)
                            - (IF FollowExists(b, a) THEN 1 ELSE 0)
                    /\ FollowExists(a, b) =>
                        LET R == (followingResponse(OwnerOf(a), a))'
                        IN /\ R.status = 200
                           /\ \A k \in 1..Len(R.body) : R.body[k].id # b

\* C12: the deletion of profile B (by its owner through /profiles/me/, or
\* with its account) removes in the same step every Follow row in which B is
\* follower or following and no other row; afterwards no following or
\* followers list contains B, and following_count of every A that followed
\* B, and followers_count of every A that B followed, is exactly one less.
C12_DeleteCascades ==
    []C12_Response /\ [][vars' # vars => C12_Effect]_vars

\* C12 witness: an account and its profile are gone, a Follow row is gone
\* with them, and a row between two remaining profiles is left
C12_Witness ==
    /\ users # Users
    /\ nextProfileId = MaxProfileId + 1
    /\ Cardinality(profiles) = MaxProfileId - 1
    /\ nextFollowId = Cardinality(follows) + 2
    /\ \E f \in follows : {f.follower, f.following} \subseteq ProfileIds

\* C13: whenever a client's follow of B succeeds and is followed by its
\* unfollow of B and a second follow of B, the unfollow answers 204 and
\* deletes the row the first follow wrote, the second follow answers 201,
\* and the row it writes has another id and a later created_at than the
\* first; no row with the id of a deleted row is ever in the table again.
C13_FollowUnfollowFollow ==
    /\ \A i \in 1..(Len(requests) - 2) :
        LET r1 == requests[i]
            r2 == requests[i + 1]
            r3 == requests[i + 2]
        IN (/\ r1.kind = "follow" /\ r1.response.status = 201
            /\ r2.kind = "unfollow" /\ r2.target = r1.target
            /\ r3.kind = "follow" /\ r3.target = r1.target) =>
                /\ r2.response.status = 204
                /\ r2.rows = r1.rows
                /\ r3.response.status = 201
                /\ Cardinality(r1.rows) = 1 /\ Cardinality(r3.rows) = 1
                /\ \A x \in r1.rows, y \in r3.rows :
                        /\ y.id # x.id
                        /\ y.created_at > x.created_at
                        /\ y.follower = x.follower
                        /\ y.following = x.following
    /\ \A j \in 1..Len(requests) :
            requests[j].kind = "unfollow" =>
                \A x \in requests[j].rows, f \in follows : f.id # x.id

\* C13 witness: a session of follow, unfollow, follow of the same profile,
\* all three answered with success
C13_Witness ==
    /\ Len(requests) = 3
    /\ requests[1].kind = "follow" /\ requests[1].response.status = 201
    /\ requests[2].kind = "unfollow" /\ requests[2].response.status = 204
    /\ requests[3].kind = "follow" /\ requests[3].response.status = 201
    /\ requests[3].target = requests[1].target

\* the rows the two requests of a race wrote and deleted, and from them
\* the table as it was before either request started
RaceInserted ==
    UNION {requests[i].rows : i \in {j \in RaceRequests :
                requests[j].kind = "follow" /\ requests[j].response.status = 201}}

RaceDeleted ==
    UNION {requests[i].rows : i \in {j \in RaceRequests :
                requests[j].kind = "unfollow" /\ requests[j].response.status = 204}}

RowsAtStart == (follows \cup RaceDeleted) \ RaceInserted

RaceDone == \A i \in RaceRequests : requests[i].at = "done"

\* both requests are by the same actor for the same target, the first of
\* kind k1 and the second of kind k2, and the target is another profile
RacePair(k1, k2) ==
    /\ requests[1].kind = k1 /\ requests[2].kind = k2
    /\ requests[1].user = requests[2].user
    /\ requests[1].target = requests[2].target
    /\ requests[1].target # Follow_get_current_profile(requests[1].user)

\* C14: when two follow requests of one actor A for one other profile B,
\* not followed before, have both been answered after any interleaving of
\* their validation and insert steps, exactly one was answered 201, the
\* other was answered with the duplicate-follow error, and exactly one
\* row (A,B) is in the table.
C14_ConcurrentFollowsOneDuplicate ==
    LET a == Follow_get_current_profile(requests[1].user)
        b == requests[1].target
    IN (/\ RacePair("follow", "follow")
        /\ RaceDone
        /\ \A f \in RowsAtStart : ~(f.follower = a /\ f.following = b)) =>
            /\ \E i \in RaceRequests :
                    /\ requests[i].response.status = 201
                    /\ requests[3 - i].response = DuplicateFollowError
            /\ Cardinality(FollowRows(a, b)) = 1

\* C14 witness: both follows were validated before either insert; one is
\* answered 201 and the other with the unhandled IntegrityError
C14_Witness ==
    /\ RacePair("follow", "follow")
    /\ RaceDone
    /\ \E i \in RaceRequests :
            /\ requests[i].response.status = 201
            /\ requests[3 - i].response = ServerError("IntegrityError")

\* What the code does keep of C14: one request is answered 201, the other
\* is refused, with the duplicate-follow error when its validation came
\* after the insert of the first and with an unhandled IntegrityError
\* when it came before, and exactly one row (A,B) is in the table.
C14_OneEdgeOneSuccess ==
    LET a == Follow_get_current_profile(requests[1].user)
        b == requests[1].target
    IN (/\ RacePair("follow", "follow")
        /\ RaceDone
        /\ \A f \in RowsAtStart : ~(f.follower = a /\ f.following = b)) =>
            /\ \E i \in RaceRequests :
                    /\ requests[i].response.status = 201
                    /\ requests[3 - i].response \in
                            {DuplicateFollowError, ServerError("IntegrityError")}
            /\ Cardinality(FollowRows(a, b)) = 1

\* the request whose write was committed last, 0 when nothing was written
LastCommit ==
    IF Commits = 0 THEN 0
    ELSE CHOOSE i \in RaceRequests : requests[i].commit = Commits

\* C15: when a follow and an unfollow of one actor A for one other profile
\* B run at the same time, every state of the run has at most one row per
\* pair and no self-follow row, and once both are answered the table holds
\* exactly one row (A,B), the one the follow wrote, if the follow's write
\* was committed last, and no row (A,B) if the unfollow's was; the rows of
\* other pairs are those the run started with.
C15_FollowUnfollowRace ==
    LET a == Follow_get_current_profile(requests[1].user)
        b == requests[1].target
        pair == {f \in follows : f.follower = a /\ f.following = b}
    IN (RacePair("follow", "unfollow") \/ RacePair("unfollow", "follow")) =>
            /\ \A f \in follows : f.follower # f.following
            /\ \A f, g \in follows :
                    (f.follower = g.follower /\ f.following = g.following)
                        => f = g
            /\ Cardinality(pair) <= 1
            /\ RaceDone =>
                /\ follows \ pair = RowsAtStart \ {f \in RowsAtStart :
                        f.follower = a /\ f.following = b}
                /\ LastCommit = 0 => follows = RowsAtStart
                /\ LastCommit # 0 =>
                    IF requests[LastCommit].kind = "follow"
                    THEN pair = requests[LastCommit].rows /\ Cardinality(pair) = 1
                    ELSE pair = {}

\* C15 witness: the follow wrote its row, the unfollow found that row and
\* deleted it after, and both are answered
C15_Witness ==
    /\ RacePair("follow", "unfollow")
    /\ RaceDone
    /\ requests[1].response.status = 201 /\ requests[1].commit = 1
    /\ requests[2].response.status = 204 /\ requests[2].commit = 2
    /\ requests[2].rows = requests[1].rows
    /\ FollowRows(Follow_get_current_profile(requests[1].user),
                  requests[1].target) = {}

\* the ids the follow requests carry: a number, or something that is none
SentIds == {<<TRUE, v>> : v \in IdInputs} \cup {<<FALSE, 0>>}

\* C16: a follow request answered with anything but 201 and an unfollow
\* request answered with anything but 204 (self-follow, duplicate, missing
\* target, no edge of the actor's own, unauthenticated caller, malformed
\* id) leave the Follow table and the Profile table as they were.
C16_Effect ==
    \A u \in Users \cup {Anonymous}, i \in SentIds :
        /\ (FollowCreate(u, i[1], i[2])
                /\ FollowCreateResponse(u, i[1], i[2]).status # 201)
            => (follows' = follows /\ profiles' = profiles)
        /\ (FollowDestroy(u, i[1], i[2])
                /\ FollowDestroyResponse(u, i[1], i[2]).status # 204)
            => (follows' = follows /\ profiles' = profiles)

C16_RejectedLeavesTables == [][vars' # vars => C16_Effect]_vars

\* C16 witness: a state with a Follow row (A,B) and a profile id that is
\* gone, where A is refused a self-follow, a second follow of B, a follow
\* and an unfollow of the id that is gone, B is refused an unfollow of B
\* (the only row towards B is A's), and a caller without credentials is
\* refused both
C16_Witness ==
    \E u \in UsersWithProfile, w \in UsersWithProfile, f \in follows,
       m \in IdInputs \ ProfileIds :
        /\ f.follower = Follow_get_current_profile(u)
        /\ f.following = Follow_get_current_profile(w)
        /\ FollowCreateResponse(u, TRUE, f.follower) = SelfFollowError
        /\ FollowCreateResponse(u, TRUE, f.following) = DuplicateFollowError
        /\ FollowCreateResponse(u, TRUE, m) = NotFound
        /\ FollowDestroyResponse(u, TRUE, m) = NotFound
        /\ FollowDestroyResponse(w, TRUE, f.following) = NotFound
        /\ FollowCreateResponse(Anonymous, TRUE, f.following) = NotAuthenticated
        /\ FollowDestroyResponse(Anonymous, TRUE, f.following) = NotAuthenticated

\* C17: what an actor A is answered on an unfollow of B depends on A's own
\* rows only: 204 when A has a row towards B, and otherwise the same 404
\* whether no row towards B exists or rows towards B exist that belong to
\* other followers; so two states that differ only in rows whose follower
\* is not A answer A alike.
C17_UnfollowSeesOwnEdgesOnly ==
    \A u \in UsersWithProfile, b \in IdInputs :
        LET a == Follow_get_current_profile(u)
            own == {f \in follows : f.follower = a}
        IN FollowDestroyResponse(u, TRUE, b) =
                IF \E f \in own : f.following = b
                THEN Response(204, "deleted", EmptyBody)
                ELSE NotFound

\* C17 witness: A has no row of its own, one profile is followed by
\* another follower and one by nobody, and A is answered 404 for both
C17_Witness ==
    \E u \in UsersWithProfile, b \in ProfileIds, c \in ProfileIds :
        LET a == Follow_get_current_profile(u)
        IN /\ a # b /\ a # c /\ b # c
           /\ m2m_follows(a) = {}
           /\ \E f \in follows : f.following = b /\ f.follower # a
           /\ \A f \in follows : f.following # c
           /\ FollowDestroyResponse(u, TRUE, b) = NotFound
           /\ FollowDestroyResponse(u, TRUE, c) = NotFound

\* C18: a Follow row keeps its follower, following and created_at from
\* its insert to its delete: after any step a row of the table is either
\* still there with every field as it was or no row has its id.  A GET on
\* the list route and a GET, PUT or PATCH on the detail route, sent by an
\* authenticated account, are answered 405, and such a request changes no
\* row.
C18_Response ==
    \A u \in users, r \in FollowUnboundRequests :
        FollowDispatchResponse(u, r[1], r[2]) = MethodNotAllowed

C18_Effect ==
    /\ \A f \in follows :
            \/ f \in follows'
            \/ \A g \in follows' : g.id # f.id
    /\ \A u \in Users \cup {Anonymous}, r \in FollowUnboundRequests :
            FollowNotAllowed(u, r[1], r[2]) => follows' = follows

C18_EdgesImmutable == []C18_Response /\ [][vars' # vars => C18_Effect]_vars

\* C18 witness: a row has stayed in the table while a later row was
\* inserted and a row was deleted, and an account is answered 405 for a
\* PUT and a GET on the detail route
C18_Witness ==
    \E f \in follows, u \in users :
        /\ nextFollowId > f.id + 1
        /\ nextFollowId > Cardinality(follows) + 1
        /\ FollowDispatchResponse(u, "PUT", "detail").status = 405
        /\ FollowDispatchResponse(u, "GET", "detail").status = 405

\* C19: every row a POST /follows/ writes has as follower the profile of
\* the account that sent the request, whatever follower_id the payload
\* carries, and a caller without credentials writes none.
C19_Effect ==
    \A u \in Users \cup {Anonymous}, isint \in BOOLEAN, v \in IdInputs \cup {0} :
        FollowCreate(u, isint, v) =>
            \A f \in follows' \ follows :
                /\ u # Anonymous
                /\ HasProfile(u)
                /\ f.follower = Follow_get_current_profile(u)

C19_FollowerIsActor == [][vars' # vars => C19_Effect]_vars

\* C19 witness: the row written last is a row of an account's own
\* profile, and the payload that asked for it named another profile
C19_Witness ==
    \E u \in UsersWithProfile, f \in follows :
        /\ f.id = nextFollowId - 1
        /\ f.follower = Follow_get_current_profile(u)
        /\ payload_follower_id(f.following) # f.follower

\* C20: for every Follow row f whose follower is the actor's profile, a
\* DELETE on the detail URL built from f.id is answered 204 and the row it
\* removes is f, so the table has one row less.
C20_UnfollowByRecordId ==
    \A u \in UsersWithProfile, f \in follows :
        LET current_profile == Follow_get_current_profile(u)
        IN f.follower = current_profile =>
            /\ FollowDestroyResponse(u, TRUE, f.id).status = 204
            /\ Follow_get_object(current_profile, f.id) = {f}

\* C20 witness: the actor has two rows; the URL built from the id of one
\* is answered 404, and the URL built from the id of the other finds the
\* first instead
C20_Witness ==
    \E u \in UsersWithProfile, f \in follows, g \in follows :
        LET current_profile == Follow_get_current_profile(u)
        IN /\ f.follower = current_profile /\ g.follower = current_profile
           /\ f # g
           /\ FollowDestroyResponse(u, TRUE, f.id) = NotFound
           /\ Follow_get_object(current_profile, g.id) = {f}

\* What the code does in place of C20: the pk of the detail URL is read as
\* the id of the followed profile, so the URL built from f.following
\* removes f and is answered 204.
C20_UnfollowByFollowingId ==
    \A u \in UsersWithProfile, f \in follows :
        LET current_profile == Follow_get_current_profile(u)
        IN f.follower = current_profile =>
            /\ FollowDestroyResponse(u, TRUE, f.following).status = 204
            /\ Follow_get_object(current_profile, f.following) = {f}

\* the profiles of account u
ProfilesOf(u) == {p \in profiles : p.user = u}

AlreadyHasProfileError ==
    Response(400, "You already have a profile.", EmptyBody)

\* C21: in every reachable state an account has at most one profile.  A
\* GET or PATCH on /profiles/me/ and an image upload add one profile of
\* the caller when the caller has none and add nothing when it has one;
\* POST /profiles/ by an account that has a profile is answered 400 "You
\* already have a profile." and adds nothing.
C21_Response ==
    /\ \A u \in Users : Cardinality(ProfilesOf(u)) <= 1
    /\ \A u \in UsersWithProfile :
            ProfileCreateResponse(u, TRUE) = AlreadyHasProfileError

C21_Effect ==
    \A u \in Users, valid \in BOOLEAN :
        /\ (MeGet(u) \/ MePatch(u, valid) \/ upload_image(u, valid)) =>
                /\ profiles \subseteq profiles'
                /\ \A p \in profiles' \ profiles : p.user = u
                /\ Cardinality(profiles' \ profiles) =
                        IF HasProfile(u) THEN 0 ELSE 1
        /\ (ProfileCreate(u, valid) /\ HasProfile(u)) => profiles' = profiles

C21_OneProfilePerAccount ==
    []C21_Response /\ [][vars' # vars => C21_Effect]_vars

\* C21 witness: an account has a profile, its GET on /profiles/me/ is
\* answered with that profile and its POST /profiles/ is refused, while
\* another account has none yet
C21_Witness ==
    \E u \in UsersWithProfile, w \in users :
        /\ ~HasProfile(w)
        /\ MeGetResponse(u).status = 200
        /\ MeGetResponse(u).body[1].id = ProfileOf(u)
        /\ ProfileCreateResponse(u, TRUE) = AlreadyHasProfileError

\* C22: every follow and unfollow request of an authenticated account and
\* every followers, following and followers-i-know request of an
\* authenticated account, whether the account has a profile or not, is
\* answered with success (201, 204, 200) or with a client error (400,
\* 404), never with an unhandled failure.
C22_NoUnhandledFailure ==
    \A u \in users, pk \in IdInputs :
        /\ FollowCreateResponse(u, TRUE, pk).status \in {201, 400, 404}
        /\ FollowDestroyResponse(u, TRUE, pk).status \in {204, 404}
        /\ followersResponse(u, pk).status \in {200, 404}
        /\ followingResponse(u, pk).status \in {200, 404}
        /\ followers_i_knowResponse(u, pk).status \in {200, 404}

\* C22 witness: an account without a profile asks to follow, to unfollow
\* and to list the followers of an existing profile, and each request
\* ends in an exception nothing handles
C22_Witness ==
    \E u \in users, pk \in ProfileIds :
        /\ ~HasProfile(u)
        /\ FollowCreateResponse(u, TRUE, pk)
                = ServerError("Profile.DoesNotExist")
        /\ FollowDestroyResponse(u, TRUE, pk)
                = ServerError("Profile.DoesNotExist")
        /\ followersResponse(u, pk) = ServerError("AttributeError")
        /\ followers_i_knowResponse(u, pk) = ServerError("AttributeError")

\* What the code does keep of C22: for an account that has a profile the
\* same requests are answered with success or a client error.
C22_HandledWithProfile ==
    \A u \in UsersWithProfile, pk \in IdInputs :
        /\ FollowCreateResponse(u, TRUE, pk).status \in {201, 400, 404}
        /\ FollowDestroyResponse(u, TRUE, pk).status \in {204, 404}
        /\ followersResponse(u, pk).status \in {200, 404}
        /\ followingResponse(u, pk).status \in {200, 404}
        /\ followers_i_knowResponse(u, pk).status \in {200, 404}

\* C23: a PATCH on /profiles/me/ keeps the id, the owning account, the
\* verified flag, the suspended flag and the image of the row, whatever
\* the payload carries for them, and a row it creates on the way has the
\* caller as account and the defaults in those columns; only bio,
\* location, birth_date and website take the payload's values.  A PUT on
\* /profiles/me/ by an account is answered 405 and changes no row.
C23_Response ==
    \A u \in users : MePutResponse(u) = MethodNotAllowed

C23_Effect ==
    /\ \A p \in profiles : \E q \in profiles' : q.id = p.id
    /\ \A p \in profiles, q \in profiles' :
            q.id = p.id =>
                /\ q.user = p.user
                /\ q.is_verified = p.is_verified
                /\ q.is_suspended = p.is_suspended
                /\ q.image = p.image
    /\ \A q \in profiles' :
            q.id \notin ProfileIds =>
                /\ q.id = nextProfileId
                /\ q.user \in users
                /\ ~HasProfile(q.user)
                /\ q.is_verified = FALSE
                /\ q.is_suspended = FALSE
                /\ q.image = "null"
    /\ \A u \in Users \cup {Anonymous} :
            (MePut(u) /\ MePutResponse(u).status # 200) => profiles' = profiles

C23_UpdateKeepsReadOnly ==
    []C23_Response /\ [][vars' # vars => C23_Effect]_vars

\* C23 witness: a stored row, verified and with an image, was updated by a
\* payload that named bio and website and not location: those two columns
\* are new, and the read-only columns are as stored although the payload
\* carried other values for them
C23_Witness ==
    \E p \in profiles :
        /\ p.bio = "new" /\ p.website = "new" /\ p.location = "old"
        /\ p.is_verified = TRUE /\ p.is_suspended = FALSE
        /\ p.image = "old"
        /\ p.user \in users /\ p.id = p.user

\* The accounts that are administrators (is_staff), a flag of the account
\* that no view of the profiles app reads: the last account.
Admins == {MaxProfileId}

Forbidden ==
    Response(403, "You do not have permission to perform this action.",
             EmptyBody)

\* C24: POST /profiles/ by an authenticated account that is no
\* administrator is answered 403, whatever the payload.
C24_NonAdminCreateForbidden ==
    \A u \in users \ Admins, valid \in BOOLEAN :
        ProfileCreateResponse(u, valid) = Forbidden

\* C24 witness: an account that is no administrator and has no profile is
\* answered 201 on POST /profiles/ while another account already has a
\* profile
C24_Witness ==
    \E u \in users \ Admins :
        /\ ~HasProfile(u)
        /\ profiles # {}
        /\ ProfileCreateResponse(u, TRUE) = Response(201, "created", EmptyBody)

\* What the code does in place of C24: any authenticated account without
\* a profile, administrator or not, is answered 201 for a valid payload,
\* and the row the request writes is the caller's own.
C24_Effect ==
    \A u \in users, valid \in BOOLEAN :
        (ProfileCreate(u, valid) /\ ~HasProfile(u) /\ valid) =>
            /\ ProfileCreateResponse(u, valid).status = 201
            /\ profiles' = profiles \cup {NewProfile(u)}

C24_AnyAccountCreatesOwn == [][vars' # vars => C24_Effect]_vars

\* days from the first day of BirthYear to the date
RECURSIVE DaysBeforeYear(_)
DaysBeforeYear(year) ==
    IF year <= BirthYear THEN 0
    ELSE DaysBeforeYear(year - 1) + (IF IsLeap(year - 1) THEN 366 ELSE 365)

RECURSIVE DaysBeforeMonth(_, _)
DaysBeforeMonth(year, month) ==
    IF month <= 1 THEN 0
    ELSE DaysBeforeMonth(year, month - 1) + DaysIn(year, month - 1)

DayNumber(date) ==
    DaysBeforeYear(date.year) + DaysBeforeMonth(date.year, date.month) + date.day

\* the n-th anniversary of a date: the same day of the same month n years
\* on, and the first of March where that year has no 29th of February
Anniversary(date, n) ==
    IF date.day <= DaysIn(date.year + n, date.month)
    THEN Date(date.year + n, date.month, date.day)
    ELSE Date(date.year + n, date.month + 1, 1)

C26_Referential ==
    /\ \A f \in follows : {f.follower, f.following} \subseteq ProfileIds
    /\ \A p \in profiles : p.user \in users

C26_Effect ==
    LET goneUsers == users \ users'
        gone == ProfileIds \ ProfileIds'
    IN /\ \A p \in profiles : p.user \in goneUsers => p.id \in gone
       /\ \A f \in follows :
            (f.follower \in gone \/ f.following \in gone) => f \notin follows'
       /\ gone # {} =>
            follows' = {f \in follows :
                            f.follower \notin gone /\ f.following \notin gone}

\* C26: in every reachable state both endpoints of every Follow row are
\* existing profiles and the account of every profile exists; the step that
\* deletes a profile, or an account with its profile, removes every Follow
\* row touching that profile in the same step.
C26_NoDanglingReference ==
    []C26_Referential /\ [][C26_Effect]_vars

\* C26 witness: every account is left, one profile was deleted by its
\* owner, and each Follow row ever inserted touched it and is gone
C26_Witness ==
    /\ users = Users
    /\ nextProfileId = MaxProfileId + 1
    /\ Cardinality(profiles) = MaxProfileId - 1
    /\ nextFollowId = MaxFollowId + 1
    /\ follows = {}

\* ------------------------------------------------------------------ C27
\* the Follow rows that are not rows of the pair (a, b)
RowsBeside(a, b) == follows \ FollowRows(a, b)

C27_Effect ==
    \A u \in UsersWithProfile, b \in IdInputs :
        LET a == Follow_get_current_profile(u)
        IN /\ (FollowCreate(u, TRUE, b)
                    /\ FollowCreateResponse(u, TRUE, b).status = 201) =>
                /\ FollowRows(a, b) = {}
                /\ Cardinality(FollowRows(a, b)') = 1
                /\ RowsBeside(a, b)' = RowsBeside(a, b)
                /\ FollowRows(b, a)' = FollowRows(b, a)
           /\ (FollowDestroy(u, TRUE, b)
                    /\ FollowDestroyResponse(u, TRUE, b).status = 204) =>
                /\ Cardinality(FollowRows(a, b)) = 1
                /\ FollowRows(a, b)' = {}
                /\ RowsBeside(a, b)' = RowsBeside(a, b)
                /\ FollowRows(b, a)' = FollowRows(b, a)

\* C27: a successful follow of B by A adds the one row (A, B) and a
\* successful unfollow removes the one row (A, B); the reverse row (B, A)
\* and every other row are the same before and after, so both directions
\* can be present together.
C27_FollowIsDirected == [][vars' # vars => C27_Effect]_vars

\* C27 witness: the two rows written so far are (A, B) and (B, A)
C27_Witness ==
    /\ nextFollowId = 3
    /\ \E f \in follows, g \in follows :
            /\ f.id = 1 /\ g.id = 2
            /\ f.follower = g.following
            /\ f.following = g.follower

\* ------------------------------------------------------------------ C28
\* C28: for any two distinct profiles A and B, is_following as viewer A
\* reads it on B is follows_you as viewer B reads it on A, a proper boolean
\* that says whether the row (A, B) exists, and the retrieve path (the
\* follows and followed_by relations) and the list path (the annotation)
\* give the same two values.
C28_FlagsMirror ==
    \A a \in ProfileIds : \A b \in ProfileIds \ {a} :
        /\ IsFollowingRetrieve(a, b) = BoolVal(FollowExists(a, b))
        /\ IsFollowingRetrieve(a, b) = FollowsYouRetrieve(b, a)
        /\ IsFollowingList(a, b) = FollowsYouList(b, a)
        /\ IsFollowingRetrieve(a, b) = IsFollowingList(a, b)
        /\ FollowsYouRetrieve(a, b) = FollowsYouList(a, b)

\* C28 witness: A follows B and B does not follow A, so the two flags
\* differ on each side
C28_Witness ==
    \E a \in ProfileIds : \E b \in ProfileIds \ {a} :
        /\ FollowExists(a, b)
        /\ ~FollowExists(b, a)
        /\ IsFollowingRetrieve(a, b) = "True"
        /\ FollowsYouRetrieve(a, b) = "False"
        /\ IsFollowingList(b, a) = "False"
        /\ FollowsYouList(b, a) = "True"

\* ------------------------------------------------------------------ C29
\* C29: every entry of the followers list of P that P requests has
\* follows_you true, every entry of the following list of P that P requests
\* has is_following true, and every entry of followers-I-know of P
\* requested by viewer V has is_following true and is neither V nor P.
C29_ListFlags ==
    \A u \in UsersWithProfile :
        LET v == get_current_profile(u)
            Rfollowers == followersResponse(u, v)
            Rfollowing == followingResponse(u, v)
        IN /\ Rfollowers.status = 200
           /\ \A k \in 1..Len(Rfollowers.body) :
                    Rfollowers.body[k].follows_you = "True"
           /\ Rfollowing.status = 200
           /\ \A k \in 1..Len(Rfollowing.body) :
                    Rfollowing.body[k].is_following = "True"
           /\ \A pk \in ProfileIds :
                LET R == followers_i_knowResponse(u, pk)
                IN /\ R.status = 200
                   /\ \A k \in 1..Len(R.body) :
                        /\ R.body[k].is_following = "True"
                        /\ R.body[k].id \notin {v, pk}

\* C29 witness: a viewer follows a follower of P, so followers-I-know of P
\* has an entry, and so have the followers list P reads of itself and the
\* following list the viewer reads of itself
C29_Witness ==
    \E u \in UsersWithProfile, w \in UsersWithProfile :
        LET v == get_current_profile(u)
            pk == get_current_profile(w)
        IN /\ v # pk
           /\ Len(followers_i_knowResponse(u, pk).body) = 1
           /\ Len(followersResponse(w, pk).body) = 1
           /\ Len(followingResponse(u, v).body) = 1

\* ------------------------------------------------------------------ C30
\* the one profile in the body of GET /profiles/<pk>/
Retrieved(u, pk) == RetrieveResponse(u, pk).body[1]

FlagsAttached(e) ==
    e.is_following \in ProperBoolean /\ e.follows_you \in ProperBoolean

FlagsNotAttached(e) ==
    e.is_following = "absent" /\ e.follows_you = "absent"

CountsAttached(e) ==
    /\ e.following_count = Cardinality({f \in follows : f.follower = e.id})
    /\ e.followers_count = Cardinality({f \in follows : f.following = e.id})

CountsNotAttached(e) ==
    e.following_count = NoCount /\ e.followers_count = NoCount

====
